---- MODULE Spec2Model ----
(***************************************************************************)
(* dn42_route_gen (src/src/main.rs): reads two ordered policy files        *)
(* (filter.txt, filter6.txt), walks two directories of RPSL route objects  *)
(* and writes the resulting ROA list with cache metadata.                  *)
(*                                                                         *)
(* Text is modelled as a sequence of one-character strings, so that the    *)
(* program's splitting, case folding and number parsing are computed and   *)
(* not assumed.  An address is the sequence of its bits, most significant  *)
(* first, which represents u32 and u128 values exactly; a right shift by s *)
(* drops the last s bits and puts s zero bits in front.                    *)
(***************************************************************************)
EXTENDS Integers, Sequences, FiniteSets, TLC

(***************************************************************************)
(* Characters and strings                                                  *)
(***************************************************************************)
DecDigits == <<"0","1","2","3","4","5","6","7","8","9">>
HexLower == <<"0","1","2","3","4","5","6","7","8","9","a","b","c","d","e","f">>
HexUpper == <<"0","1","2","3","4","5","6","7","8","9","A","B","C","D","E","F">>
\* char::is_whitespace on the characters a text can hold here
is_whitespace(c) == c \in {" ", "\t", "\n", "\r", "\f"}

\* first < '0' || first > '9' is false
IsDecDigit(c) == \E d \in 1..10 : DecDigits[d] = c
DecVal(c) == (CHOOSE d \in 1..10 : DecDigits[d] = c) - 1

IsHexDigit(c) == \E d \in 1..16 : HexLower[d] = c \/ HexUpper[d] = c
HexVal(c) == (CHOOSE d \in 1..16 : HexLower[d] = c \/ HexUpper[d] = c) - 1

\* char::to_ascii_lowercase, char::to_ascii_uppercase
lower(c) ==
    CASE c = "A" -> "a" [] c = "B" -> "b" [] c = "C" -> "c" [] c = "D" -> "d"
      [] c = "E" -> "e" [] c = "F" -> "f" [] c = "G" -> "g" [] c = "H" -> "h"
      [] c = "I" -> "i" [] c = "J" -> "j" [] c = "K" -> "k" [] c = "L" -> "l"
      [] c = "M" -> "m" [] c = "N" -> "n" [] c = "O" -> "o" [] c = "P" -> "p"
      [] c = "Q" -> "q" [] c = "R" -> "r" [] c = "S" -> "s" [] c = "T" -> "t"
      [] c = "U" -> "u" [] c = "V" -> "v" [] c = "W" -> "w" [] c = "X" -> "x"
      [] c = "Y" -> "y" [] c = "Z" -> "z"
      [] OTHER -> c

upper(c) ==
    CASE c = "a" -> "A" [] c = "b" -> "B" [] c = "c" -> "C" [] c = "d" -> "D"
      [] c = "e" -> "E" [] c = "f" -> "F" [] c = "g" -> "G" [] c = "h" -> "H"
      [] c = "i" -> "I" [] c = "j" -> "J" [] c = "k" -> "K" [] c = "l" -> "L"
      [] c = "m" -> "M" [] c = "n" -> "N" [] c = "o" -> "O" [] c = "p" -> "P"
      [] c = "q" -> "Q" [] c = "r" -> "R" [] c = "s" -> "S" [] c = "t" -> "T"
      [] c = "u" -> "U" [] c = "v" -> "V" [] c = "w" -> "W" [] c = "x" -> "X"
      [] c = "y" -> "Y" [] c = "z" -> "Z"
      [] OTHER -> c

RECURSIVE to_ascii_lowercase(_)
to_ascii_lowercase(s) ==
    IF s = <<>> THEN <<>> ELSE <<lower(Head(s))>> \o to_ascii_lowercase(Tail(s))

RECURSIVE to_ascii_uppercase(_)
to_ascii_uppercase(s) ==
    IF s = <<>> THEN <<>> ELSE <<upper(Head(s))>> \o to_ascii_uppercase(Tail(s))

\* str::split(sep) for a one-character separator: the pieces between the
\* separators, empty pieces included; a text without separator is one piece
RECURSIVE split(_, _)
split(s, sep) ==
    IF \A i \in 1..Len(s) : s[i] # sep
    THEN <<s>>
    ELSE LET k == CHOOSE i \in 1..Len(s) :
                      s[i] = sep /\ \A j \in 1..(i - 1) : s[j] # sep
         IN  <<SubSeq(s, 1, k - 1)>> \o split(SubSeq(s, k + 1, Len(s)), sep)

\* str::split_whitespace: the maximal runs of non-whitespace characters
RECURSIVE split_whitespace(_)
split_whitespace(s) ==
    IF \A i \in 1..Len(s) : is_whitespace(s[i])
    THEN <<>>
    ELSE LET b == CHOOSE i \in 1..Len(s) :
                      ~is_whitespace(s[i]) /\ \A j \in 1..(i - 1) : is_whitespace(s[j])
             e == CHOOSE i \in b..Len(s) :
                      /\ (i = Len(s) \/ is_whitespace(s[i + 1]))
                      /\ \A j \in b..i : ~is_whitespace(s[j])
         IN  <<SubSeq(s, b, e)>> \o split_whitespace(SubSeq(s, e + 1, Len(s)))

(***************************************************************************)
(* Option and Result values.  None / Err carry a default payload so that   *)
(* every value of one kind has the same shape.                             *)
(***************************************************************************)
Some(v) == [some |-> TRUE, val |-> v]
None(d) == [some |-> FALSE, val |-> d]

\* value of a string of decimal digits, saturating just above u8::MAX
U8_MAX == 255
RECURSIVE DecValue(_, _)
DecValue(s, acc) ==
    IF s = <<>> THEN acc
    ELSE LET v == acc * 10 + DecVal(s[1])
         IN  DecValue(Tail(s), IF v > U8_MAX THEN U8_MAX + 1 ELSE v)

\* str::parse::<u8>(): an optional '+', then one or more decimal digits whose
\* value fits eight bits; anything else (empty, '-', letters, 256) is an error
parse_u8(s) ==
    LET d == IF s # <<>> /\ s[1] = "+" THEN Tail(s) ELSE s
        v == DecValue(d, 0)
    IN  IF d # <<>> /\ (\A i \in 1..Len(d) : IsDecDigit(d[i])) /\ v <= U8_MAX
        THEN Some(v)
        ELSE None(0)

(***************************************************************************)
(* Addresses: IpAddr::V4 holds 32 bits, IpAddr::V6 holds 128 bits.         *)
(***************************************************************************)
V4Bits == 32
V6Bits == 128

\* the bits of v (a value below 2^width), most significant first
RECURSIVE BitsOf(_, _)
BitsOf(v, width) == IF width = 0 THEN <<>> ELSE BitsOf(v \div 2, width - 1) \o <<v % 2>>

Zeros(n) == [i \in 1..n |-> 0]

NoAddr == [family |-> "none", bits |-> <<>>]

\* value of a short string of digits in base 10 or 16
RECURSIVE NumValue(_, _, _)
NumValue(s, base, acc) ==
    IF s = <<>> THEN acc ELSE NumValue(Tail(s), base, acc * base + HexVal(s[1]))

\* the bits of a sequence of groups of digits, width bits for each
RECURSIVE GroupBits(_, _, _)
GroupBits(gs, base, width) ==
    IF gs = <<>> THEN <<>>
    ELSE BitsOf(NumValue(Head(gs), base, 0), width) \o GroupBits(Tail(gs), base, width)

\* one decimal octet of a dotted quad: 1 to 3 digits, no leading zero, at most 255
IsOctet(g) ==
    /\ Len(g) \in 1..3
    /\ \A i \in 1..Len(g) : IsDecDigit(g[i])
    /\ (Len(g) > 1 => g[1] # "0")
    /\ NumValue(g, 10, 0) <= U8_MAX

parse_ipv4(s) ==
    LET g == split(s, ".")
    IN  IF Len(g) = 4 /\ \A i \in 1..4 : IsOctet(g[i])
        THEN Some([family |-> "V4", bits |-> GroupBits(g, 10, 8)])
        ELSE None(NoAddr)

\* one group of an IPv6 address: 1 to 4 hexadecimal digits
IsGroup(g) == Len(g) \in 1..4 /\ \A i \in 1..Len(g) : IsHexDigit(g[i])

\* the groups of a colon-separated text; the empty text has no group
Groups(s) == IF s = <<>> THEN <<>> ELSE split(s, ":")

\* IPv6 text: eight groups, or a head and a tail of at most seven groups in
\* all around one "::" (the forms with a dotted-quad tail are not modelled)
parse_ipv6(s) ==
    LET HasGap == \E i \in 1..(Len(s) - 1) : s[i] = ":" /\ s[i + 1] = ":"
        k    == CHOOSE i \in 1..(Len(s) - 1) :
                    /\ s[i] = ":" /\ s[i + 1] = ":"
                    /\ \A j \in 1..(i - 1) : ~(s[j] = ":" /\ s[j + 1] = ":")
        head == Groups(IF HasGap THEN SubSeq(s, 1, k - 1) ELSE s)
        tail == IF HasGap THEN Groups(SubSeq(s, k + 2, Len(s))) ELSE <<>>
        gs   == head \o tail
        ok   == /\ \A i \in 1..Len(gs) : IsGroup(gs[i])
                /\ IF HasGap THEN Len(gs) <= 7 ELSE Len(gs) = 8
    IN  IF ok
        THEN Some([family |-> "V6",
                   bits |-> GroupBits(head, 16, 16) \o Zeros(16 * (8 - Len(gs)))
                            \o GroupBits(tail, 16, 16)])
        ELSE None(NoAddr)

\* str::parse::<IpAddr>(): an IPv4 address, else an IPv6 address, else an error
parse_IpAddr(s) == LET v4 == parse_ipv4(s) IN IF v4.some THEN v4 ELSE parse_ipv6(s)

(***************************************************************************)
(* The words the program compares tokens with                              *)
(***************************************************************************)
Kw_deny ==
    <<"d","e","n","y">>
Kw_permit ==
    <<"p","e","r","m","i","t">>
Kw_route ==
    <<"r","o","u","t","e",":">>
Kw_route6 ==
    <<"r","o","u","t","e","6",":">>
Kw_origin ==
    <<"o","r","i","g","i","n",":">>
Kw_max_length ==
    <<"m","a","x","-","l","e","n","g","t","h",":">>

(***************************************************************************)
(* struct CIDR { ip, netmask } and the policy rules (CIDR, bool, u8, u8)   *)
(***************************************************************************)
NoCIDR == [ip |-> NoAddr, netmask |-> 0]

\* CIDR::from_str: exactly two pieces around '/', an address and a u8
CIDR_from_str(s) ==
    LET parts   == split(s, "/")
        ip      == parse_IpAddr(parts[1])
        netmask == parse_u8(parts[2])
    IN  IF Len(parts) # 2 THEN None(NoCIDR)
        ELSE IF ~ip.some THEN None(NoCIDR)
        ELSE IF ~netmask.some THEN None(NoCIDR)
        ELSE Some([ip |-> ip.val, netmask |-> netmask.val])

\* v >> s on the bits of v, for 0 <= s < width
Shr(bits, s) == Zeros(s) \o SubSeq(bits, 1, Len(bits) - s)

\* a >> (width - netmask) == b >> (width - netmask), where width - netmask is
\* computed in u8.  With overflow checks (debug profile) a netmask above the
\* width makes the subtraction panic and a shift amount equal to the width
\* makes the shift panic; without them (release profile) the subtraction wraps
\* modulo 2^8 and the shift amount is taken modulo the width.
shr_eq(a, b, width, netmask, checks) ==
    LET d  == (width - netmask) % (U8_MAX + 1)
        sh == d % width
    IN  IF checks /\ (netmask > width \/ d >= width)
        THEN [panic |-> TRUE, val |-> FALSE]
        ELSE [panic |-> FALSE, val |-> Shr(a, sh) = Shr(b, sh)]

\* CIDR::contains
contains(self, ip, checks) ==
    IF self.ip.family = "V4" /\ ip.family = "V4"
    THEN shr_eq(self.ip.bits, ip.bits, V4Bits, self.netmask, checks)
    ELSE IF self.ip.family = "V6" /\ ip.family = "V6"
    THEN shr_eq(self.ip.bits, ip.bits, V6Bits, self.netmask, checks)
    ELSE [panic |-> FALSE, val |-> FALSE]

NoRule == [cidr |-> NoCIDR, allow |-> FALSE, min |-> 0, max |-> 0]

\* the closure process_line of process_filter: a line whose first character is
\* a decimal digit, whose second token is "deny" or "permit", third a CIDR,
\* fourth and fifth a u8; every other line gives None
process_line(line) ==
    LET toks == split_whitespace(line)
        cidr == CIDR_from_str(toks[3])
        num  == [k \in {4, 5} |-> parse_u8(toks[k])]
    IN  IF line = <<>> \/ ~IsDecDigit(line[1]) THEN None(NoRule)
        ELSE IF Len(toks) < 2 \/ toks[2] \notin {Kw_deny, Kw_permit} THEN None(NoRule)
        ELSE IF Len(toks) < 3 \/ ~cidr.some THEN None(NoRule)
        ELSE IF Len(toks) < 4 \/ ~num[4].some THEN None(NoRule)
        ELSE IF Len(toks) < 5 \/ ~num[5].some THEN None(NoRule)
        ELSE Some([cidr  |-> cidr.val,
                   allow |-> toks[2] = Kw_permit,
                   min   |-> num[4].val,
                   max   |-> num[5].val])

RECURSIVE filter_map_lines(_)
filter_map_lines(lines) ==
    IF lines = <<>> THEN <<>>
    ELSE LET rule == process_line(Head(lines))
         IN  (IF rule.some THEN <<rule.val>> ELSE <<>>) \o filter_map_lines(Tail(lines))

\* process_filter on a readable file: the rules of its lines, in file order,
\* pushed after the rules already held
process_filter(text, held) == held \o filter_map_lines(split(text, "\n"))

(***************************************************************************)
(* process_entry                                                           *)
(***************************************************************************)
NoAttrs == [prefix |-> None(<<>>), asn |-> <<>>, max_length |-> None(0), err |-> FALSE]

\* one line of the attribute loop of process_entry (lines 158-174): the
\* attributes after it; err is set when a max-length value does not parse
scan_line(line, st) ==
    LET toks == split_whitespace(to_ascii_lowercase(line))
        len  == parse_u8(toks[2])
    IN  IF line # <<>> /\ is_whitespace(line[1]) THEN st
        ELSE IF Len(toks) < 2 THEN st
        ELSE IF toks[1] \in {Kw_route, Kw_route6} THEN [st EXCEPT !.prefix = Some(toks[2])]
        ELSE IF toks[1] = Kw_origin
        THEN [st EXCEPT !.asn = Append(@, to_ascii_uppercase(toks[2]))]
        ELSE IF toks[1] = Kw_max_length
        THEN IF len.some THEN [st EXCEPT !.max_length = len] ELSE [st EXCEPT !.err = TRUE]
        ELSE st

\* the attribute loop (lines 157-175); a max-length value that does not
\* parse returns from process_entry at once
RECURSIVE scan_lines(_, _)
scan_lines(lines, st) ==
    IF lines = <<>> \/ st.err THEN st ELSE scan_lines(Tail(lines), scan_line(Head(lines), st))

\* the loop over the filters (lines 183-196): where it stops and why
RECURSIVE find_filter(_, _, _, _)
find_filter(fs, i, addr, checks) ==
    IF i > Len(fs) THEN [stop |-> "none", rule |-> 0]
    ELSE LET c == contains(fs[i].cidr, addr, checks)
         IN  IF c.panic THEN [stop |-> "panic", rule |-> i]
             ELSE IF ~c.val THEN find_filter(fs, i + 1, addr, checks)
             ELSE IF ~fs[i].allow THEN [stop |-> "deny", rule |-> i]
             ELSE [stop |-> "allow", rule |-> i]

\* the match on max_length (lines 200-211)
clamp(max_length, min, max) ==
    IF max_length.some
    THEN IF max_length.val > max THEN max
         ELSE IF max_length.val < min THEN min
         ELSE max_length.val
    ELSE max

\* lines 151-181 of process_entry: the entry's text to its attributes, the
\* address and the netmask of its prefix.  kind is "Ok", "Err" (a `?` that
\* returned) or "Panic" (prefix_parts[1] out of bounds: the address is parsed
\* at line 180, before the netmask is indexed at line 181).
Parsed(kind, st, addr, netmask) ==
    [kind |-> kind, prefix |-> st.prefix.val, asn |-> st.asn, max_length |-> st.max_length,
     addr |-> addr, netmask |-> netmask]

parse_entry(file) ==
    IF ~file.readable THEN Parsed("Err", NoAttrs, NoAddr, 0)
    ELSE
    LET st    == scan_lines(split(file.text, "\n"), NoAttrs)
        parts == split(st.prefix.val, "/")
        addr  == parse_IpAddr(parts[1])
        mask  == parse_u8(parts[2])
    IN  IF st.err THEN Parsed("Err", NoAttrs, NoAddr, 0)
        ELSE IF ~st.prefix.some THEN Parsed("Err", st, NoAddr, 0)
        ELSE IF ~addr.some THEN Parsed("Err", st, NoAddr, 0)
        ELSE IF Len(parts) < 2 THEN Parsed("Panic", st, addr.val, 0)
        ELSE IF ~mask.some THEN Parsed("Err", st, addr.val, 0)
        ELSE Parsed("Ok", st, addr.val, mask.val)

\* What one call of process_entry gives: kind is "Ok" (with its ROAs), "Err"
\* or "Panic"; rule is the index of the filter the loop stopped at (0 if
\* none) and max_length the value of the local max_length of line 200 (-1
\* when that line is not reached).
Outcome(kind, rs, rule, len) ==
    [kind |-> kind, roas |-> rs, rule |-> rule, max_length |-> len]

\* lines 183-226 of process_entry, for an entry whose text went through
resolve(rec, fs, checks) ==
    LET f   == find_filter(fs, 1, rec.addr, checks)
        len == clamp(rec.max_length, fs[f.rule].min, fs[f.rule].max)
    IN  IF f.stop = "panic" THEN Outcome("Panic", <<>>, f.rule, -1)
        ELSE IF f.stop = "deny" THEN Outcome("Ok", <<>>, f.rule, -1)
        ELSE IF f.stop = "none" THEN Outcome("Err", <<>>, 0, -1)
        ELSE IF rec.netmask > len THEN Outcome("Ok", <<>>, f.rule, len)
        ELSE Outcome("Ok",
                     [k \in 1..Len(rec.asn) |->
                         [prefix |-> rec.prefix, max_length |-> len, asn |-> rec.asn[k]]],
                     f.rule, len)

(***************************************************************************)
(* The texts the document source can hold                                  *)
(***************************************************************************)
\*   | ## nr action prefix minlen maxlen
\*   | 1 permit 10.0.0.0/8 16 24
\*   | 2 deny 0.0.0.0/0 0 32
\*   | 
Filter4_Registry ==
    <<"#","#"," ","n","r"," ","a","c","t","i","o","n"," ","p","r","e","f","i","x"," ","m","i",
      "n","l","e","n"," ","m","a","x","l","e","n","\n","1"," ","p","e","r","m","i","t"," ","1",
      "0",".","0",".","0",".","0","/","8"," ","1","6"," ","2","4","\n","2"," ","d","e","n","y",
      " ","0",".","0",".","0",".","0","/","0"," ","0"," ","3","2","\n">>

\*   | 1 deny 10.0.0.0/8 0 32
\*   | 2 permit 10.0.0.0/8 16 24
Filter4_DenyFirst ==
    <<"1"," ","d","e","n","y"," ","1","0",".","0",".","0",".","0","/","8"," ","0"," ","3","2",
      "\n","2"," ","p","e","r","m","i","t"," ","1","0",".","0",".","0",".","0","/","8"," ","1",
      "6"," ","2","4">>

\*   | 1 permit 10.0.0.0/8 8 24
\*   | 2 permit 10.1.0.0/16 16 20
\*   | 
Filter4_BroadFirst ==
    <<"1"," ","p","e","r","m","i","t"," ","1","0",".","0",".","0",".","0","/","8"," ","8"," ",
      "2","4","\n","2"," ","p","e","r","m","i","t"," ","1","0",".","1",".","0",".","0","/","1",
      "6"," ","1","6"," ","2","0","\n">>

\*   | 1 permit 10.0.0.0/8 24 16
\*   | 
Filter4_MinAboveMax ==
    <<"1"," ","p","e","r","m","i","t"," ","1","0",".","0",".","0",".","0","/","8"," ","2","4",
      " ","1","6","\n">>

\*   | 1<TAB>permit<TAB>10.0.0.0/40<TAB>0<TAB>32<CR>
\*   | 
Filter4_LongMask ==
    <<"1","\t","p","e","r","m","i","t","\t","1","0",".","0",".","0",".","0","/","4","0","\t",
      "0","\t","3","2","\r","\n">>

\*   | x permit 10.0.0.0/8 8 24
\*   | 1 allow 10.0.0.0/8 8 24
\*   | 2 permit 10.0.0.0 8 24
\*   | 3 permit 10.0.0.0/8 x 24
\*   | 4 permit 10.0.0.0/8 8
\*   | 5 Permit 10.0.0.0/8 8 24
\*   | 
\*   | 6 permit 10.1.0.0/16 16 20 # kept
\*   | 7 permit 10.256.0.0/16 16 20
Filter4_Malformed ==
    <<"x"," ","p","e","r","m","i","t"," ","1","0",".","0",".","0",".","0","/","8"," ","8"," ",
      "2","4","\n","1"," ","a","l","l","o","w"," ","1","0",".","0",".","0",".","0","/","8"," ",
      "8"," ","2","4","\n","2"," ","p","e","r","m","i","t"," ","1","0",".","0",".","0",".","0",
      " ","8"," ","2","4","\n","3"," ","p","e","r","m","i","t"," ","1","0",".","0",".","0",".",
      "0","/","8"," ","x"," ","2","4","\n","4"," ","p","e","r","m","i","t"," ","1","0",".","0",
      ".","0",".","0","/","8"," ","8","\n","5"," ","P","e","r","m","i","t"," ","1","0",".","0",
      ".","0",".","0","/","8"," ","8"," ","2","4","\n","\n","6"," ","p","e","r","m","i","t"," ",
      "1","0",".","1",".","0",".","0","/","1","6"," ","1","6"," ","2","0"," ","#"," ","k","e",
      "p","t","\n","7"," ","p","e","r","m","i","t"," ","1","0",".","2","5","6",".","0",".","0",
      "/","1","6"," ","1","6"," ","2","0">>

\*   | 1 permit 0.0.0.0/0 8 24
\*   | 
Filter4_AllowAll ==
    <<"1"," ","p","e","r","m","i","t"," ","0",".","0",".","0",".","0","/","0"," ","8"," ","2",
      "4","\n">>

\*   | 1 deny 0.0.0.0/0 0 32
\*   | 2 permit 10.0.0.0/8 16 24
\*   | 
Filter4_DenyAllFirst ==
    <<"1"," ","d","e","n","y"," ","0",".","0",".","0",".","0","/","0"," ","0"," ","3","2","\n",
      "2"," ","p","e","r","m","i","t"," ","1","0",".","0",".","0",".","0","/","8"," ","1","6",
      " ","2","4","\n">>

\*   | 1 permit fd00::/8 44 64
\*   | 2 deny ::/0 0 128
\*   | 
Filter6_Registry ==
    <<"1"," ","p","e","r","m","i","t"," ","f","d","0","0",":",":","/","8"," ","4","4"," ","6",
      "4","\n","2"," ","d","e","n","y"," ",":",":","/","0"," ","0"," ","1","2","8","\n">>

\*   | 1 permit FD42:0:0:0:0:0:0:0/16 48 200
\*   | 
Filter6_Upper ==
    <<"1"," ","p","e","r","m","i","t"," ","F","D","4","2",":","0",":","0",":","0",":","0",":",
      "0",":","0",":","0","/","1","6"," ","4","8"," ","2","0","0","\n">>

\*   | 
Filter6_Empty ==
    <<>>

\*   | route: 10.1.0.0/16
\*   | origin: AS100
\*   | origin: as200
\*   | 
Route_TwoOrigins ==
    <<"r","o","u","t","e",":"," ","1","0",".","1",".","0",".","0","/","1","6","\n","o","r","i",
      "g","i","n",":"," ","A","S","1","0","0","\n","o","r","i","g","i","n",":"," ","a","s","2",
      "0","0","\n">>

\*   | route: 10.3.0.0/24
\*   | max-length: 28
\*   | origin: AS1
\*   | 
Route_TooSpecific ==
    <<"r","o","u","t","e",":"," ","1","0",".","3",".","0",".","0","/","2","4","\n","m","a","x",
      "-","l","e","n","g","t","h",":"," ","2","8","\n","o","r","i","g","i","n",":"," ","A","S",
      "1","\n">>

\*   | route: 10.2.0.0/16
\*   | origin: AS5
\*   | max-length: 20
\*   | 
Route_Inside ==
    <<"r","o","u","t","e",":"," ","1","0",".","2",".","0",".","0","/","1","6","\n","o","r","i",
      "g","i","n",":"," ","A","S","5","\n","m","a","x","-","l","e","n","g","t","h",":"," ","2",
      "0","\n">>

\*   | route: 10.4.0.0/16
\*   | max-length: 10
\*   | origin: AS7
\*   | 
Route_Below ==
    <<"r","o","u","t","e",":"," ","1","0",".","4",".","0",".","0","/","1","6","\n","m","a","x",
      "-","l","e","n","g","t","h",":"," ","1","0","\n","o","r","i","g","i","n",":"," ","A","S",
      "7","\n">>

\*   | route: 10.5.0.0
\*   | origin: AS9
\*   | 
Route_NoSlash ==
    <<"r","o","u","t","e",":"," ","1","0",".","5",".","0",".","0","\n","o","r","i","g","i","n",
      ":"," ","A","S","9","\n">>

\*   | descr: nothing
\*   | origin: AS1
\*   | 
Route_NoRoute ==
    <<"d","e","s","c","r",":"," ","n","o","t","h","i","n","g","\n","o","r","i","g","i","n",":",
      " ","A","S","1","\n">>

\*   | route: 10.6.0.0/16
\*   | max-length: abc
\*   | origin: AS2
\*   | 
Route_BadMaxLength ==
    <<"r","o","u","t","e",":"," ","1","0",".","6",".","0",".","0","/","1","6","\n","m","a","x",
      "-","l","e","n","g","t","h",":"," ","a","b","c","\n","o","r","i","g","i","n",":"," ","A",
      "S","2","\n">>

\*   | route: 10.6.0.0/16
\*   | max-length: 300
\*   | origin: AS2
\*   | 
Route_WideMaxLength ==
    <<"r","o","u","t","e",":"," ","1","0",".","6",".","0",".","0","/","1","6","\n","m","a","x",
      "-","l","e","n","g","t","h",":"," ","3","0","0","\n","o","r","i","g","i","n",":"," ","A",
      "S","2","\n">>

\*   | route: 10.x.0.0/16
\*   | origin: AS3
\*   | 
Route_BadAddress ==
    <<"r","o","u","t","e",":"," ","1","0",".","x",".","0",".","0","/","1","6","\n","o","r","i",
      "g","i","n",":"," ","A","S","3","\n">>

\*   | route: 10.7.0.0/ab
\*   | origin: AS3
\*   | 
Route_BadLength ==
    <<"r","o","u","t","e",":"," ","1","0",".","7",".","0",".","0","/","a","b","\n","o","r","i",
      "g","i","n",":"," ","A","S","3","\n">>

\*   | route: 192.168.0.0/16
\*   | origin: AS3
\*   | 
Route_Outside ==
    <<"r","o","u","t","e",":"," ","1","9","2",".","1","6","8",".","0",".","0","/","1","6","\n",
      "o","r","i","g","i","n",":"," ","A","S","3","\n">>

\*   | ROUTE: 10.8.0.0/16<CR>
\*   | Origin: as64512<CR>
\*   | ORIGIN: AS64512<CR>
\*   | <TAB>remarks: x<CR>
\*   | MAX-LENGTH: +18<CR>
\*   | route: 10.9.0.0/16<CR>
\*   | 
Route_UpperCase ==
    <<"R","O","U","T","E",":"," ","1","0",".","8",".","0",".","0","/","1","6","\r","\n","O","r",
      "i","g","i","n",":"," ","a","s","6","4","5","1","2","\r","\n","O","R","I","G","I","N",":",
      " ","A","S","6","4","5","1","2","\r","\n","\t","r","e","m","a","r","k","s",":"," ","x",
      "\r","\n","M","A","X","-","L","E","N","G","T","H",":"," ","+","1","8","\r","\n","r","o",
      "u","t","e",":"," ","1","0",".","9",".","0",".","0","/","1","6","\r","\n">>

\*   | route: 10.1.2.0/24
\*   | max-length: 24
\*   | 
Route_NoOrigin ==
    <<"r","o","u","t","e",":"," ","1","0",".","1",".","2",".","0","/","2","4","\n","m","a","x",
      "-","l","e","n","g","t","h",":"," ","2","4","\n">>

\*   | route6: FD42:1::/48
\*   | origin: AS4242420001
\*   |  max-length: 40
\*   | mnt-by: X
\*   | 
Route6_Plain ==
    <<"r","o","u","t","e","6",":"," ","F","D","4","2",":","1",":",":","/","4","8","\n","o","r",
      "i","g","i","n",":"," ","A","S","4","2","4","2","4","2","0","0","0","1","\n"," ","m","a",
      "x","-","l","e","n","g","t","h",":"," ","4","0","\n","m","n","t","-","b","y",":"," ","X",
      "\n">>

\*   | route6: 2001:db8::/32
\*   | origin: AS6
\*   | 
Route6_Outside ==
    <<"r","o","u","t","e","6",":"," ","2","0","0","1",":","d","b","8",":",":","/","3","2","\n",
      "o","r","i","g","i","n",":"," ","A","S","6","\n">>

\* a file that cannot be read, and a readable one
Unreadable == [readable |-> FALSE, text |-> <<>>]
File(text) == [readable |-> TRUE, text |-> text]

\* data/filter.txt
FilterFiles4 ==
    {File(Filter4_Registry),
     File(Filter4_DenyFirst),
     File(Filter4_BroadFirst),
     File(Filter4_MinAboveMax),
     File(Filter4_LongMask),
     File(Filter4_Malformed),
     File(Filter4_AllowAll),
     File(Filter4_DenyAllFirst),
     Unreadable}

\* data/filter6.txt
FilterFiles6 ==
    {File(Filter6_Registry),
     File(Filter6_Upper),
     File(Filter6_Empty),
     Unreadable}

\* the entries data/route and data/route6 can hold
RouteFiles ==
    {File(Route_TwoOrigins),
     File(Route_TooSpecific),
     File(Route_Inside),
     File(Route_Below),
     File(Route_NoSlash),
     File(Route_NoRoute),
     File(Route_BadMaxLength),
     File(Route_WideMaxLength),
     File(Route_BadAddress),
     File(Route_BadLength),
     File(Route_Outside),
     File(Route_UpperCase),
     File(Route_NoOrigin),
     File(Route6_Plain),
     File(Route6_Outside),
     Unreadable}

\* process_entry: Ok(roas), Err(...) or a panic
process_entry(f, fs, checks) ==
    LET rec == parse_entry(f)
    IN  IF rec.kind = "Ok" THEN resolve(rec, fs, checks) ELSE Outcome(rec.kind, <<>>, 0, -1)

(***************************************************************************)
(* main                                                                    *)
(***************************************************************************)
\* a week counted without its seconds
CACHE_EXPIRY_Minutes == 7 * 24 * 60

\* const CACHE_EXPIRY: u64, the seconds of seven days
CACHE_EXPIRY == 7 * 24 * 60 * 60

\* directory entries walked in one run, over both directories
MaxEntries == 2
\* latest reading of the clock, in seconds since the epoch
MaxNow == 2

VARIABLES
    pc,               \* where main is
    overflow_checks,  \* build profile: TRUE panics on arithmetic overflow
    filters,          \* Vec<(CIDR, bool, u8, u8)>
    roas,             \* Vec<ROA>
    entry,            \* the directory entry process_entry was last called on
    result,           \* what that call gave
    walked,           \* number of entries walked so far
    output            \* the document written to args[2]

vars == <<pc, overflow_checks, filters, roas, entry, result, walked, output>>

NoResult == Outcome("None", <<>>, 0, -1)
NoOutput == [metadata |-> [counts |-> 0, generated |-> 0, valid |-> 0], roas |-> <<>>]

Init ==
    /\ pc = "args"
    /\ overflow_checks \in BOOLEAN
    /\ filters = <<>>
    /\ roas = <<>>
    /\ entry = Unreadable
    /\ result = NoResult
    /\ walked = 0
    /\ output = NoOutput

\* lines 71-75: anything but two arguments ends the run with the usage error
CheckArgs ==
    /\ pc = "args"
    /\ \E len \in 2..4 : pc' = IF len # 3 THEN "error" ELSE "filter"
    /\ UNCHANGED <<overflow_checks, filters, roas, entry, result, walked, output>>

\* line 79: process_filter on data/filter.txt; an unreadable file is fatal
ReadFilter ==
    /\ pc = "filter"
    /\ \E f \in FilterFiles4 :
          IF f.readable
          THEN filters' = process_filter(f.text, filters) /\ pc' = "filter6"
          ELSE filters' = filters /\ pc' = "error"
    /\ UNCHANGED <<overflow_checks, roas, entry, result, walked, output>>

\* line 80: process_filter on data/filter6.txt
ReadFilter6 ==
    /\ pc = "filter6"
    /\ \E f \in FilterFiles6 :
          IF f.readable
          THEN filters' = process_filter(f.text, filters) /\ pc' = "open_route"
          ELSE filters' = filters /\ pc' = "error"
    /\ UNCHANGED <<overflow_checks, roas, entry, result, walked, output>>

\* line 139: fs::read_dir(path)?, fatal when the directory cannot be read
OpenDir ==
    /\ pc \in {"open_route", "open_route6"}
    /\ \E ok \in BOOLEAN :
          pc' = IF ~ok THEN "error" ELSE IF pc = "open_route" THEN "route" ELSE "route6"
    /\ UNCHANGED <<overflow_checks, filters, roas, entry, result, walked, output>>

\* lines 141-142: one entry of the directory goes through process_entry; an
\* Ok extends roas, an Err is dropped by .ok(), a panic ends the process
WalkEntry ==
    /\ pc \in {"route", "route6"}
    /\ walked < MaxEntries
    /\ \E f \in RouteFiles :
          LET r == process_entry(f, filters, overflow_checks)
          IN  /\ entry' = f
              /\ result' = r
              /\ roas' = IF r.kind = "Ok" THEN roas \o r.roas ELSE roas
              /\ pc' = IF r.kind = "Panic" THEN "panic" ELSE pc
    /\ walked' = walked + 1
    /\ UNCHANGED <<overflow_checks, filters, output>>

\* the directory iterator is exhausted: process_directory returns Ok(())
CloseDir ==
    /\ pc \in {"route", "route6"}
    /\ pc' = IF pc = "route" THEN "open_route6" ELSE "assemble"
    /\ UNCHANGED <<overflow_checks, filters, roas, entry, result, walked, output>>

\* lines 87-99: read the clock, build Routes and write it; a failing write
\* is fatal and leaves no document.  The clock counts seconds from the epoch
\* in a u64 and reads far below 2^64 - CACHE_EXPIRY, so the sum does not wrap.
WriteOutput ==
    /\ pc = "assemble"
    /\ \E now \in 0..MaxNow, written \in BOOLEAN :
          IF written
          THEN /\ output' = [metadata |-> [counts    |-> Len(roas),
                                           generated |-> now,
                                           valid     |-> now + CACHE_EXPIRY],
                             roas |-> roas]
               /\ pc' = "done"
          ELSE output' = output /\ pc' = "error"
    /\ UNCHANGED <<overflow_checks, filters, roas, entry, result, walked>>

Next ==
    \/ CheckArgs
    \/ ReadFilter
    \/ ReadFilter6
    \/ OpenDir
    \/ WalkEntry
    \/ CloseDir
    \/ WriteOutput

Spec == Init /\ [][Next]_vars

(***************************************************************************)
(* The notions the properties are stated with.  They are those of the      *)
(* specification, not of the code: a CIDR covers an address of its family  *)
(* whose leading prefixLength bits are its own (all the bits when the      *)
(* length exceeds the width, every address when the length is 0).          *)
(***************************************************************************)
Width(family) == IF family = "V4" THEN V4Bits ELSE V6Bits

Min(a, b) == IF a < b THEN a ELSE b

Covers(cidr, ip) ==
    /\ cidr.ip.family = ip.family
    /\ LET n == Min(cidr.netmask, Width(ip.family))
       IN  SubSeq(cidr.ip.bits, 1, n) = SubSeq(ip.bits, 1, n)

\* position of the first rule covering the address, 0 when there is none
FirstMatch(fs, ip) ==
    IF \E i \in 1..Len(fs) : Covers(fs[i].cidr, ip)
    THEN CHOOSE i \in 1..Len(fs) :
             Covers(fs[i].cidr, ip) /\ \A j \in 1..(i - 1) : ~Covers(fs[j].cidr, ip)
    ELSE 0

Swap(fs, i, j) == [fs EXCEPT ![i] = fs[j], ![j] = fs[i]]

\* the entry last walked gave a record (prefix, origins, max-length)
Resolved == walked > 0 /\ parse_entry(entry).kind = "Ok"
\* the first rule covering its address
Matched == FirstMatch(filters, parse_entry(entry).addr)
AllowMatched == Resolved /\ Matched > 0 /\ filters[Matched].allow
DenyMatched == Resolved /\ Matched > 0 /\ ~filters[Matched].allow

\* C1: the rule applied to a record is the first rule, in the order filter.txt
\* then filter6.txt, whose CIDR contains the record's address, whatever the
\* specificity of the rules; exchanging two rules that do not both contain the
\* address changes nothing in the result.
FirstMatchDecides ==
    Resolved =>
        /\ result.rule = Matched
        /\ Matched > 0 => result.kind = "Ok"
        /\ \A i, j \in 1..Len(filters) :
              (i < j /\ ~(Covers(filters[i].cidr, parse_entry(entry).addr)
                          /\ Covers(filters[j].cidr, parse_entry(entry).addr)))
              => LET other == process_entry(entry, Swap(filters, i, j), overflow_checks)
                 IN  other.kind = result.kind /\ other.roas = result.roas

\* C2: under an Allow rule the effective max length is the rule's maxLength
\* when the record declares none, and otherwise the declared value clamped
\* into [minLength, maxLength]: above maxLength gives maxLength, below
\* minLength gives minLength, inside the range is kept.
ClampedIntoRuleBounds ==
    AllowMatched =>
        LET rule     == filters[Matched]
            declared == parse_entry(entry).max_length
        IN  /\ ~declared.some => result.max_length = rule.max
            /\ (declared.some /\ declared.val > rule.max) => result.max_length = rule.max
            /\ (declared.some /\ declared.val < rule.min) => result.max_length = rule.min
            /\ (declared.some /\ declared.val >= rule.min /\ declared.val <= rule.max)
                  => result.max_length = declared.val

\* C3: under an Allow rule, a prefix longer than the effective max length
\* gives the empty sequence and no error; otherwise there is one entry per
\* origin, in declaration order with duplicates kept, each with the record's
\* prefix text, the effective max length and the origin in upper case.
OneEntryPerOrigin ==
    AllowMatched =>
        /\ result.kind = "Ok"
        /\ parse_entry(entry).netmask > result.max_length => result.roas = <<>>
        /\ parse_entry(entry).netmask <= result.max_length =>
              /\ Len(result.roas) = Len(parse_entry(entry).asn)
              /\ \A k \in 1..Len(result.roas) :
                    result.roas[k] = [prefix     |-> parse_entry(entry).prefix,
                                      max_length |-> result.max_length,
                                      asn        |-> to_ascii_uppercase(parse_entry(entry).asn[k])]

\* C4: a record with a malformed prefix (no '/', bad address, bad length), no
\* route attribute, a malformed max-length or an address no rule covers is
\* dropped alone: the walk goes on and the entries of the other records are
\* what they are without it.
HardErrorsIsolated ==
    [][(walked' = walked + 1
        /\ (parse_entry(entry').kind # "Ok" \/ FirstMatch(filters, parse_entry(entry').addr) = 0))
       => (result'.kind = "Err" /\ roas' = roas /\ pc' = pc)]_vars

\* C5: a rule of prefix length 0 contains every address of its family, and
\* the test does not fail.
ZeroLengthContainsAll ==
    Resolved =>
        \A i \in 1..Len(filters) :
            (filters[i].cidr.netmask = 0
             /\ filters[i].cidr.ip.family = parse_entry(entry).addr.family)
            => contains(filters[i].cidr, parse_entry(entry).addr, overflow_checks)
                   = [panic |-> FALSE, val |-> TRUE]

\* C6: a record whose first matching rule is Deny gives the empty sequence and
\* never an error, whatever its origins and lengths and the rules that follow.
DenyGivesEmpty == DenyMatched => (result.kind = "Ok" /\ result.roas = <<>>)

\* C7: a record whose address no rule contains (no rule at all, or rules of
\* the other family only) gives an error, not the empty success.
NoRuleGivesError == (Resolved /\ Matched = 0) => result.kind = "Err"

\* C8: in a written document, counts is the number of elements of roas (all
\* the entries gathered over the two directories) and valid is generated plus
\* 604800.
DocumentMetadata ==
    pc = "done" =>
        /\ output.roas = roas
        /\ output.metadata.counts = Len(output.roas)
        /\ output.metadata.valid = output.metadata.generated + 604800

DocumentWritten ==
    pc = "done" /\ output.metadata.counts >= 2 /\ output.metadata.generated > 0

\* C9: every rule held after the policy files are read has minLength <=
\* maxLength, and minLength, maxLength and the prefix length of its CIDR
\* within the width of its family.
RulesWellFormed ==
    \A i \in 1..Len(filters) :
        LET w == Width(filters[i].cidr.ip.family)
        IN  /\ filters[i].min <= filters[i].max
            /\ filters[i].min <= w
            /\ filters[i].max <= w
            /\ filters[i].cidr.netmask <= w

\* C10: every ROA entry comes from a record whose first matching rule is
\* Allow, and its maxLength lies between the record's prefix length and that
\* rule's maxLength.
EntriesWithinPolicy ==
    (walked > 0 /\ result.kind = "Ok")
    => \A k \in 1..Len(result.roas) :
           /\ AllowMatched
           /\ parse_entry(entry).netmask <= result.roas[k].max_length
           /\ result.roas[k].max_length <= filters[Matched].max

====
